---- MODULE Spec2Model ----
(***************************************************************************)
(* Request builder for Cloud Code (src/unnamed/part_000).                  *)
(*                                                                         *)
(* Two entry points are modelled:                                          *)
(*   buildHeaders(token, model, accept)      header set, built from a      *)
(*                                           process-wide template cache   *)
(*   buildCloudCodeRequest(request, project) the wrapped request payload   *)
(*                                                                         *)
(* JavaScript objects are modelled as functions from field names to        *)
(* values, an object spread {...a, ...b} as b @@ a (the later operand      *)
(* wins), and a Map as a function from its keys to its values.             *)
(* constants.js, format/index.js and session-manager.js are imported by    *)
(* the source; the definitions standing for what they export say so where  *)
(* they are defined.                                                       *)
(***************************************************************************)
EXTENDS Integers, Sequences, FiniteSets, TLC

\* ---------------------------------------------------------------- bounds
\* Number of buildHeaders + buildCloudCodeRequest calls in a behaviour.
MaxCalls == 3
\* Number of buildCloudCodeRequest calls in a behaviour.
MaxEnvelopes == 2
\* Longest systemInstruction.parts list the Format Converter hands over.
MaxParts == 2
\* CallTool requests handled by the two MCP servers in one run.
MaxToolCalls == 2

\* The JavaScript value undefined (a missing field or an omitted argument).
Undefined == "<undefined>"

\* ---------------------------------------------------------------- inputs
Tokens == {"tok-123", "tok-456"}

Models ==
    {"claude-opus-4-5-thinking", "claude-sonnet-4-5-thinking",
     "claude-sonnet-4-5", "gemini-3-flash", "gpt-4o"}

\* The accept argument of buildHeaders; Undefined is the omitted argument.
AcceptArgs == {Undefined, "application/json", "text/event-stream"}

\* ------------------------------------------------- constants.js (imported)
\* Model family of a model identifier; an unrecognised identifier gets the
\* default family.
getModelFamily(model) ==
    CASE model \in {"claude-opus-4-5-thinking", "claude-sonnet-4-5-thinking",
                    "claude-sonnet-4-5"} -> "claude"
      [] model \in {"gemini-3-flash"} -> "gemini"
      [] OTHER -> "unknown"

\* Whether the model identifier is flagged as a thinking variant.
isThinkingModel(model) ==
    model \in {"claude-opus-4-5-thinking", "claude-sonnet-4-5-thinking",
               "gemini-3-flash"}

\* Fixed vendor-identification headers.
ANTIGRAVITY_HEADERS ==
    ("User-Agent" :> "antigravity/1.0") @@
    ("X-Goog-Api-Client" :> "google-cloud-sdk") @@
    ("Client-Metadata" :> "ideType=IDE_UNSPECIFIED")

\* The canonical vendor system text.
ANTIGRAVITY_SYSTEM_INSTRUCTION == "You are Antigravity."

\* ------------------------------------------------------------- header side
\* const BASE_HEADERS = { 'Content-Type': 'application/json', ...ANTIGRAVITY_HEADERS }
BASE_HEADERS == ANTIGRAVITY_HEADERS @@ ("Content-Type" :> "application/json")

\* The empty Map.
EmptyMap == [k \in {} |-> Undefined]

\* obj[field] = value on a JavaScript object.
SetField(obj, field, value) == (field :> value) @@ obj

isClaudeThinking_anyFamily(model) == isThinkingModel(model)

\* const isClaudeThinking = modelFamily === 'claude' && isThinkingModel(model)
isClaudeThinking(model) ==
    getModelFamily(model) = "claude" /\ isThinkingModel(model)

cacheKey_anyThinking(model, accept) ==
    (IF isThinkingModel(model) THEN "ct" ELSE getModelFamily(model))
        \o ":" \o accept

cacheKey_noAccept(model, accept) ==
    (IF isClaudeThinking(model) THEN "ct" ELSE getModelFamily(model)) \o ":"

cacheKey_familyOnly(model, accept) ==
    getModelFamily(model) \o ":" \o accept

\* const cacheKey = `${isClaudeThinking ? 'ct' : modelFamily}:${accept}`
cacheKey(model, accept) ==
    (IF isClaudeThinking(model) THEN "ct" ELSE getModelFamily(model))
        \o ":" \o accept

buildTemplate_perModel(model, accept) ==
    LET t0 == SetField(BASE_HEADERS, "X-Model", model)
        t1 == IF isClaudeThinking(model)
                THEN SetField(t0, "anthropic-beta", "interleaved-thinking-2025-05-14")
                ELSE t0
    IN  IF accept # "application/json" THEN SetField(t1, "Accept", accept) ELSE t1

\* The template built on a cache miss: a copy of BASE_HEADERS, plus the
\* extended-reasoning header, plus a non-default Accept.
buildTemplate(model, accept) ==
    LET t0 == BASE_HEADERS
        t1 == IF isClaudeThinking(model)
                THEN SetField(t0, "anthropic-beta", "interleaved-thinking-2025-05-14")
                ELSE t0
    IN  IF accept # "application/json" THEN SetField(t1, "Accept", accept) ELSE t1

getHeaderTemplate_evicting(cache, model, accept) ==
    LET key == cacheKey(model, accept)
    IN  IF key \in DOMAIN cache
          THEN [template |-> cache[key], cache |-> cache]
          ELSE LET template == buildTemplate(model, accept)
               IN  [template |-> template, cache |-> (key :> template)]

\* getHeaderTemplate(model, accept) against the Map `cache`: the template it
\* returns and the Map it leaves behind.
getHeaderTemplate(cache, model, accept) ==
    LET key == cacheKey(model, accept)
    IN  IF key \in DOMAIN cache
          THEN [template |-> cache[key], cache |-> cache]
          ELSE LET template == buildTemplate(model, accept)
               IN  [template |-> template, cache |-> (key :> template) @@ cache]

\* The default parameter value: accept = 'application/json'.
acceptOrDefault(acceptArg) ==
    IF acceptArg = Undefined THEN "application/json" ELSE acceptArg

buildHeaders_apiKey(cache, token, model, acceptArg) ==
    LET got == getHeaderTemplate(cache, model, acceptOrDefault(acceptArg))
    IN  [headers |-> got.template @@ ("Authorization" :> ("Bearer " \o token))
                        @@ ("x-api-key" :> token),
         cache |-> got.cache, sameObject |-> FALSE]

buildHeaders_sharedTemplate(cache, token, model, acceptArg) ==
    LET accept == acceptOrDefault(acceptArg)
        got == getHeaderTemplate(cache, model, accept)
        key == cacheKey(model, accept)
        headers == got.template @@ ("Authorization" :> ("Bearer " \o token))
    IN  [headers |-> headers, cache |-> (key :> headers) @@ got.cache,
         sameObject |-> TRUE]

\* buildHeaders(token, model, accept) against the Map `cache`: the header set
\* it returns, { 'Authorization': `Bearer ${token}`, ...template }, and the
\* Map it leaves behind.  The object literal is a new object on every call:
\* what is returned is never the object stored in the Map (sameObject).
buildHeaders(cache, token, model, acceptArg) ==
    LET got == getHeaderTemplate(cache, model, acceptOrDefault(acceptArg))
    IN  [headers |-> got.template @@ ("Authorization" :> ("Bearer " \o token)),
         cache |-> got.cache, sameObject |-> FALSE]

\* ---------------------------------------------------------- envelope side
\* The entries of systemInstruction.parts the Format Converter can hand over:
\* text parts (the text may be the empty string), a part without text (inline
\* data), and null in place of a part.
briefPart == [type |-> "object", text |-> "Be brief.", inlineData |-> Undefined]
toolsPart == [type |-> "object", text |-> "Use tools.", inlineData |-> Undefined]
emptyPart == [type |-> "object", text |-> "", inlineData |-> Undefined]
imagePart == [type |-> "object", text |-> Undefined, inlineData |-> "blob"]
nullPart == [type |-> "null", text |-> Undefined, inlineData |-> Undefined]

\* Sample part lists: a repeated text, two texts in the other order, an empty
\* text first, a part without text first, a null among the parts.
SamplePartLists ==
    {<<briefPart, briefPart, toolsPart, briefPart>>,
     <<toolsPart, briefPart, emptyPart, toolsPart>>,
     <<emptyPart, toolsPart, imagePart, emptyPart>>,
     <<imagePart, briefPart, emptyPart, imagePart>>,
     <<briefPart, nullPart, toolsPart, nullPart>>}

\* The part lists handed over: the samples cut to at most MaxParts parts.
ConverterPartLists ==
    {SubSeq(ps, 1, k) : ps \in SamplePartLists, k \in 0..MaxParts}

\* The systemInstruction field of the Format Converter's output, by the kind
\* of its parts field: no systemInstruction at all ("absent"), no parts
\* ("noParts"), a list of parts ("list"), a non-empty string ("string"), a
\* truthy value that cannot be iterated, such as a number ("notIterable");
\* with or without a role of its own.
ConverterSystemInstructions ==
    {[kind |-> "absent", role |-> Undefined, parts |-> <<>>]}
    \cup {[kind |-> k, role |-> "system", parts |-> <<>>] :
            k \in {"noParts", "string", "notIterable"}}
    \cup {[kind |-> "list", role |-> Undefined, parts |-> ps] : ps \in ConverterPartLists}
    \cup {[kind |-> "list", role |-> "system", parts |-> <<toolsPart>>]}

helloConversation == <<[role |-> "user", content |-> "hello"]>>

Conversations ==
    {helloConversation,
     <<[role |-> "user", content |-> "hello"],
       [role |-> "assistant", content |-> "hi"],
       [role |-> "user", content |-> "again"]>>,
     <<[role |-> "user", content |-> "bye"]>>}

EnvelopeModels == {"claude-sonnet-4-5-thinking", "gemini-3-flash"}

ProjectIds == {"proj-1", "proj-2"}

\* A source request: model, messages, and what the Format Converter makes of
\* its system prompt (converts: whether the converter accepts the request).
Request(model, messages, sys, converts) ==
    [model |-> model, messages |-> messages, system |-> sys, converts |-> converts]

BaseRequest ==
    Request("claude-sonnet-4-5-thinking", helloConversation,
            [kind |-> "absent", role |-> Undefined, parts |-> <<>>], TRUE)

\* The source requests: the base request, varied in its system prompt, in
\* its model, in its messages, and in being convertible.
SourceRequests ==
    {Request(BaseRequest.model, BaseRequest.messages, sys, TRUE) :
        sys \in ConverterSystemInstructions}
    \cup {Request(m, BaseRequest.messages, BaseRequest.system, TRUE) :
            m \in EnvelopeModels}
    \cup {Request(BaseRequest.model, c, BaseRequest.system, TRUE) :
            c \in Conversations}
    \cup {Request(BaseRequest.model, BaseRequest.messages, BaseRequest.system, FALSE)}

\* The (request, project) arguments of the buildCloudCodeRequest calls.
EnvelopeArgs ==
    {<<r, "proj-1">> : r \in SourceRequests}
    \cup {<<BaseRequest, p>> : p \in ProjectIds}

\* format/index.js (imported): the target-dialect request of a source request.
convertAnthropicToGoogle(anthropicRequest) ==
    [contents |-> anthropicRequest.messages,
     systemInstruction |-> anthropicRequest.system]

\* session-manager.js (imported): a fingerprint of the first user message.
deriveSessionId(anthropicRequest) ==
    LET users == SelectSeq(anthropicRequest.messages, LAMBDA m : m.role = "user")
    IN  IF users = <<>> THEN "sid:" ELSE "sid:" \o users[1].content

\* JavaScript truthiness of part.text.
Truthy(text) == text # Undefined /\ text # ""

\* The two fixed parts systemParts starts with.
fixedParts ==
    <<[text |-> ANTIGRAVITY_SYSTEM_INSTRUCTION],
      [text |-> "Please ignore the following [ignore]"
                  \o ANTIGRAVITY_SYSTEM_INSTRUCTION \o "[/ignore]"]>>

RECURSIVE pushTextParts_dedup(_, _)
pushTextParts_dedup(systemParts, parts) ==
    IF parts = <<>> THEN [threw |-> FALSE, parts |-> systemParts]
    ELSE IF Head(parts).type = "null" THEN [threw |-> TRUE, parts |-> systemParts]
    ELSE pushTextParts_dedup(
            IF Truthy(Head(parts).text)
               /\ \A i \in 1..Len(systemParts) : systemParts[i].text # Head(parts).text
              THEN Append(systemParts, [text |-> Head(parts).text])
              ELSE systemParts,
            Tail(parts))

RECURSIVE pushTextParts(_, _)
\* for (const part of parts) { if (part.text) systemParts.push({ text: part.text }) }
\* reading part.text of null raises a TypeError (threw).
pushTextParts(systemParts, parts) ==
    IF parts = <<>> THEN [threw |-> FALSE, parts |-> systemParts]
    ELSE IF Head(parts).type = "null" THEN [threw |-> TRUE, parts |-> systemParts]
    ELSE pushTextParts(
            IF Truthy(Head(parts).text)
              THEN Append(systemParts, [text |-> Head(parts).text])
              ELSE systemParts,
            Tail(parts))

\* systemParts as buildCloudCodeRequest composes it from the converted
\* request.  A missing systemInstruction or parts is skipped; the characters
\* of a string have no text and add nothing; for...of over a value that is
\* not iterable raises a TypeError (threw).
composeSystemParts(googleRequest) ==
    LET kind == googleRequest.systemInstruction.kind
    IN  CASE kind = "list" ->
               pushTextParts(fixedParts, googleRequest.systemInstruction.parts)
          [] kind = "notIterable" -> [threw |-> TRUE, parts |-> fixedParts]
          [] OTHER -> [threw |-> FALSE, parts |-> fixedParts]

systemInstruction_keepRole(googleRequest, systemParts) ==
    [role |-> IF googleRequest.systemInstruction.role # Undefined
                THEN googleRequest.systemInstruction.role ELSE "user",
     parts |-> systemParts]

\* payload.request.systemInstruction = { role: 'user', parts: systemParts }
systemInstruction(googleRequest, systemParts) ==
    [role |-> "user", parts |-> systemParts]

requestId_onePerProcess(uuid) == "agent-" \o "uuid-0"

\* requestId: 'agent-' + crypto.randomUUID()
requestId(uuid) == "agent-" \o uuid

\* crypto.randomUUID(), given how many values it has generated before: the
\* values are opaque and never repeat, the n-th one is named uuid-n.
randomUUID(generated) == "uuid-" \o ToString(generated + 1)

buildCloudCodeRequest_modelOfConverted(anthropicRequest, projectId, uuid) ==
    IF ~anthropicRequest.converts
      THEN [threw |-> TRUE, payload |-> [error |-> "ConversionFailure"]]
      ELSE
        LET googleRequest == convertAnthropicToGoogle(anthropicRequest)
            systemParts == composeSystemParts(googleRequest)
        IN  IF systemParts.threw
              THEN [threw |-> TRUE, payload |-> [error |-> "TypeError"]]
              ELSE
                [threw |-> FALSE,
                 payload |->
                   [project |-> projectId,
                    model |-> Undefined,
                    request |->
                      [contents |-> googleRequest.contents,
                       sessionId |-> deriveSessionId(anthropicRequest),
                       systemInstruction |->
                         systemInstruction(googleRequest, systemParts.parts)],
                    userAgent |-> "antigravity",
                    requestType |-> "agent",
                    requestId |-> requestId(uuid)]]

buildCloudCodeRequest_sessionPerCall(anthropicRequest, projectId, uuid) ==
    IF ~anthropicRequest.converts
      THEN [threw |-> TRUE, payload |-> [error |-> "ConversionFailure"]]
      ELSE
        LET googleRequest == convertAnthropicToGoogle(anthropicRequest)
            systemParts == composeSystemParts(googleRequest)
        IN  IF systemParts.threw
              THEN [threw |-> TRUE, payload |-> [error |-> "TypeError"]]
              ELSE
                [threw |-> FALSE,
                 payload |->
                   [project |-> projectId,
                    model |-> anthropicRequest.model,
                    request |->
                      [contents |-> googleRequest.contents,
                       sessionId |-> "sid:" \o uuid,
                       systemInstruction |->
                         systemInstruction(googleRequest, systemParts.parts)],
                    userAgent |-> "antigravity",
                    requestType |-> "agent",
                    requestId |-> requestId(uuid)]]

\* buildCloudCodeRequest(anthropicRequest, projectId), where uuid is the value
\* crypto.randomUUID() returns to this call: the payload returned, or threw
\* with the error that left the function (raised by the Format Converter, or
\* the TypeError of the loop over the parts).
buildCloudCodeRequest(anthropicRequest, projectId, uuid) ==
    IF ~anthropicRequest.converts
      THEN [threw |-> TRUE, payload |-> [error |-> "ConversionFailure"]]
      ELSE
        LET googleRequest == convertAnthropicToGoogle(anthropicRequest)
            systemParts == composeSystemParts(googleRequest)
        IN  IF systemParts.threw
              THEN [threw |-> TRUE, payload |-> [error |-> "TypeError"]]
              ELSE
                [threw |-> FALSE,
                 payload |->
                   [project |-> projectId,
                    model |-> anthropicRequest.model,
                    request |->
                      [contents |-> googleRequest.contents,
                       sessionId |-> deriveSessionId(anthropicRequest),
                       systemInstruction |->
                         systemInstruction(googleRequest, systemParts.parts)],
                    userAgent |-> "antigravity",
                    requestType |-> "agent",
                    requestId |-> requestId(uuid)]]

\* ------------------------------------------------------------------ state
VARIABLES
    headerCache,    \* const headerCache = new Map()
    headerCalls,    \* the buildHeaders calls made so far, with their results
    uuidsGenerated, \* how many values crypto.randomUUID() has returned so far
    envelopeCalls,  \* the buildCloudCodeRequest calls made so far, with their results
    callers,        \* where each concurrent caller stands inside buildHeaders
    held,           \* the header set each caller got from buildHeaders and kept
    toolCalls,      \* the CallTool requests the two MCP servers handled, with their outcomes
    savedFiles      \* the image files the image server has written

vars == <<headerCache, headerCalls, uuidsGenerated, envelopeCalls, callers,
          held, toolCalls, savedFiles>>

\* The callers of the interleaved specification.
Callers == {"caller-1", "caller-2"}

\* A caller that is not inside buildHeaders.
Idle ==
    [pc |-> "idle", token |-> Undefined, model |-> Undefined,
     acceptArg |-> Undefined, template |-> EmptyMap]

\* A caller that holds no result of buildHeaders.  sameObject: whether the
\* object held is the very object stored in the cache; mutated: whether the
\* caller has changed it; afterMutation: whether, when it was returned, some
\* caller had already changed a result for the same cache key.
NothingHeld ==
    [token |-> Undefined, model |-> Undefined, accept |-> Undefined,
     headers |-> EmptyMap, sameObject |-> FALSE, mutated |-> FALSE,
     afterMutation |-> FALSE]

Init ==
    /\ headerCache = EmptyMap
    /\ headerCalls = {}
    /\ uuidsGenerated = 0
    /\ envelopeCalls = {}
    /\ callers = [p \in Callers |-> Idle]
    /\ held = [p \in Callers |-> NothingHeld]
    /\ toolCalls = {}
    /\ savedFiles = {}

CallsMade == Cardinality(headerCalls) + Cardinality(envelopeCalls)

\* One call of buildHeaders.
BuildHeadersCall ==
    /\ CallsMade < MaxCalls
    /\ \E token \in Tokens, model \in Models, acceptArg \in AcceptArgs :
        LET r == buildHeaders(headerCache, token, model, acceptArg)
            call == [token |-> token, model |-> model, accept |-> acceptArg,
                     headers |-> r.headers]
        IN  /\ headerCache' = r.cache
            /\ headerCalls' = headerCalls \cup {call}
            /\ UNCHANGED <<uuidsGenerated, envelopeCalls, callers>>
            /\ UNCHANGED <<held, toolCalls, savedFiles>>

\* One call of buildCloudCodeRequest that returns a payload.
BuildCloudCodeRequestCall ==
    /\ CallsMade < MaxCalls
    /\ Cardinality(envelopeCalls) < MaxEnvelopes
    /\ \E args \in EnvelopeArgs :
        LET r == buildCloudCodeRequest(args[1], args[2], randomUUID(uuidsGenerated))
        IN  /\ ~r.threw
            /\ uuidsGenerated' = uuidsGenerated + 1
            /\ envelopeCalls' = envelopeCalls \cup
                    {[request |-> args[1], projectId |-> args[2],
                      threw |-> FALSE, payload |-> r.payload]}
            /\ UNCHANGED <<headerCache, headerCalls, callers>>
            /\ UNCHANGED <<held, toolCalls, savedFiles>>

\* One call of buildCloudCodeRequest that ends in an error: the error leaves
\* the function before randomUUID is reached.
BuildCloudCodeRequestThrows ==
    /\ CallsMade < MaxCalls
    /\ Cardinality(envelopeCalls) < MaxEnvelopes
    /\ \E args \in EnvelopeArgs :
        LET r == buildCloudCodeRequest(args[1], args[2], Undefined)
        IN  /\ r.threw
            /\ envelopeCalls' = envelopeCalls \cup
                    {[request |-> args[1], projectId |-> args[2],
                      threw |-> TRUE, payload |-> r.payload]}
            /\ UNCHANGED <<headerCache, headerCalls, uuidsGenerated, callers>>
            /\ UNCHANGED <<held, toolCalls, savedFiles>>

Next ==
    \/ BuildHeadersCall
    \/ BuildCloudCodeRequestCall
    \/ BuildCloudCodeRequestThrows

Spec == Init /\ [][Next]_vars

\* ------------------------------------------- buildHeaders, step by step
\* The same function with its Map operations as separate steps, so that the
\* calls of several callers interleave between has(), get() and set().  This
\* is finer than one JavaScript thread runs them; it covers the hosts in
\* which calls for the same key overlap.

\* The models the interleaved callers ask for: two that share the key tag
\* 'ct' and one with a tag of its own.
RaceModels ==
    {"claude-opus-4-5-thinking", "claude-sonnet-4-5-thinking", "gemini-3-flash"}

RaceAcceptArgs == {Undefined, "text/event-stream"}

\* The key the caller computed on entry.
keyOfCaller(p) ==
    cacheKey(callers[p].model, acceptOrDefault(callers[p].acceptArg))

\* The calls begun so far: finished ones and the ones under way.
CallsBegun ==
    Cardinality(headerCalls) + Cardinality({p \in Callers : callers[p].pc # "idle"})

\* buildHeaders is entered; getHeaderTemplate computes the cache key.
Enter(p) ==
    /\ callers[p].pc = "idle"
    /\ CallsBegun < MaxCalls
    /\ \E token \in Tokens, model \in RaceModels, acceptArg \in RaceAcceptArgs :
          callers' = [callers EXCEPT ![p] =
              [pc |-> "has", token |-> token, model |-> model,
               acceptArg |-> acceptArg, template |-> EmptyMap]]
    /\ UNCHANGED <<headerCache, headerCalls, uuidsGenerated, envelopeCalls>>
    /\ UNCHANGED <<held, toolCalls, savedFiles>>

\* if (headerCache.has(cacheKey))
Has(p) ==
    /\ callers[p].pc = "has"
    /\ callers' = [callers EXCEPT ![p].pc =
          IF keyOfCaller(p) \in DOMAIN headerCache THEN "get" ELSE "build"]
    /\ UNCHANGED <<headerCache, headerCalls, uuidsGenerated, envelopeCalls>>
    /\ UNCHANGED <<held, toolCalls, savedFiles>>

\* return headerCache.get(cacheKey)
Get(p) ==
    /\ callers[p].pc = "get"
    /\ callers' = [callers EXCEPT ![p].pc = "merge",
                                  ![p].template = headerCache[keyOfCaller(p)]]
    /\ UNCHANGED <<headerCache, headerCalls, uuidsGenerated, envelopeCalls>>
    /\ UNCHANGED <<held, toolCalls, savedFiles>>

\* const template = { ...BASE_HEADERS }; ... the two conditional fields
Build(p) ==
    /\ callers[p].pc = "build"
    /\ callers' = [callers EXCEPT ![p].pc = "set",
          ![p].template = buildTemplate(callers[p].model,
                                        acceptOrDefault(callers[p].acceptArg))]
    /\ UNCHANGED <<headerCache, headerCalls, uuidsGenerated, envelopeCalls>>
    /\ UNCHANGED <<held, toolCalls, savedFiles>>

\* headerCache.set(cacheKey, template); return template
Set(p) ==
    /\ callers[p].pc = "set"
    /\ headerCache' = (keyOfCaller(p) :> callers[p].template) @@ headerCache
    /\ callers' = [callers EXCEPT ![p].pc = "merge"]
    /\ UNCHANGED <<headerCalls, uuidsGenerated, envelopeCalls>>
    /\ UNCHANGED <<held, toolCalls, savedFiles>>

\* return { 'Authorization': `Bearer ${token}`, ...template }
Merge(p) ==
    /\ callers[p].pc = "merge"
    /\ headerCalls' = headerCalls \cup
          {[token |-> callers[p].token, model |-> callers[p].model,
            accept |-> callers[p].acceptArg,
            headers |-> callers[p].template
                          @@ ("Authorization" :> ("Bearer " \o callers[p].token))]}
    /\ callers' = [callers EXCEPT ![p] = Idle]
    /\ UNCHANGED <<headerCache, uuidsGenerated, envelopeCalls>>
    /\ UNCHANGED <<held, toolCalls, savedFiles>>

EnterStep == \E p \in Callers : Enter(p)
HasStep == \E p \in Callers : Has(p)
GetStep == \E p \in Callers : Get(p)
BuildStep == \E p \in Callers : Build(p)
SetStep == \E p \in Callers : Set(p)
MergeStep == \E p \in Callers : Merge(p)

NextRace ==
    \/ EnterStep
    \/ HasStep
    \/ GetStep
    \/ BuildStep
    \/ SetStep
    \/ MergeStep

SpecRace == Init /\ [][NextRace]_vars

\* ------------------------------------- callers that keep what they got
\* The callers keep the header set buildHeaders returned and change it
\* afterwards, as an HTTP client does when it adds its own headers.

\* What a caller does to a header set it holds: it sets or deletes a field.
HeaderEdits ==
    {[op |-> "set", field |-> "Authorization", value |-> "Bearer other"],
     [op |-> "set", field |-> "X-Request-Trace", value |-> "on"],
     [op |-> "delete", field |-> "anthropic-beta", value |-> Undefined],
     [op |-> "delete", field |-> "User-Agent", value |-> Undefined]}

\* headers[field] = value, or delete headers[field].
applyEdit(headers, edit) ==
    IF edit.op = "set"
      THEN SetField(headers, edit.field, edit.value)
      ELSE [f \in DOMAIN headers \ {edit.field} |-> headers[f]]

\* The cache key of the call whose result the caller holds.
keyOfHeld(p) == cacheKey(held[p].model, acceptOrDefault(held[p].accept))

\* Each caller has a credential of its own.
tokenOf(p) == IF p = "caller-1" THEN "tok-123" ELSE "tok-456"

\* Caller p calls buildHeaders and keeps the result.
CallAndHold(p) ==
    \E token \in {tokenOf(p)}, model \in RaceModels, acceptArg \in RaceAcceptArgs :
        LET r == buildHeaders(headerCache, token, model, acceptArg)
            key == cacheKey(model, acceptOrDefault(acceptArg))
        IN  /\ headerCache' = r.cache
            /\ held' = [held EXCEPT ![p] =
                  [token |-> token, model |-> model, accept |-> acceptArg,
                   headers |-> r.headers, sameObject |-> r.sameObject,
                   mutated |-> FALSE,
                   afterMutation |->
                      \E q \in Callers : held[q].mutated /\ keyOfHeld(q) = key]]
            /\ UNCHANGED <<headerCalls, uuidsGenerated, envelopeCalls, callers,
                           toolCalls, savedFiles>>

\* Caller p changes the header set it holds.  The change is seen through
\* every reference to the same object: if the object held is the one stored
\* in the cache, the cached template changes with it.
MutateHeld(p) ==
    /\ held[p].headers # EmptyMap
    /\ ~held[p].mutated
    /\ \E edit \in HeaderEdits :
        LET changed == applyEdit(held[p].headers, edit)
            aliases == {q \in Callers :
                          /\ held[p].sameObject /\ held[q].sameObject
                          /\ held[q].headers # EmptyMap
                          /\ keyOfHeld(q) = keyOfHeld(p)}
        IN  /\ changed # held[p].headers
            /\ held' = [q \in Callers |->
                  IF q = p \/ q \in aliases
                    THEN [held[q] EXCEPT !.headers = changed, !.mutated = TRUE]
                    ELSE held[q]]
            /\ headerCache' =
                  IF held[p].sameObject
                    THEN (keyOfHeld(p) :> changed) @@ headerCache
                    ELSE headerCache
    /\ UNCHANGED <<headerCalls, uuidsGenerated, envelopeCalls, callers,
                   toolCalls, savedFiles>>

CallAndHoldStep == \E p \in Callers : CallAndHold(p)
MutateHeldStep == \E p \in Callers : MutateHeld(p)

NextHeld ==
    \/ CallAndHoldStep
    \/ MutateHeldStep

SpecHeld == Init /\ [][NextHeld]_vars

\* ------------------------------------------------------- MCP tool servers
\* src/mcp-tools: the search server and the image server.  Each handles a
\* CallTool request by one call of the proxy, fetch(`${PROXY_URL}/v1/messages`).

\* The blocks of data.content in the proxy's answer.
textBlock(text) == [type |-> "text", text |-> text, data |-> Undefined]
imageBlock(data) == [type |-> "image", text |-> Undefined, data |-> data]
nullBlock == [type |-> "null", text |-> Undefined, data |-> Undefined]

BlockLists ==
    {<<>>,
     <<textBlock("Result A. "), textBlock("Result B.")>>,
     <<imageBlock("iVBORw0KGgo=")>>,
     <<textBlock("Here it is."), imageBlock("iVBORw0KGgo=")>>,
     <<textBlock("Result A. "), nullBlock>>}

\* No proxy call was made: the handler ended before it reached fetch.
NoFetch == [kind |-> "none", status |-> Undefined, message |-> Undefined, content |-> <<>>]

\* What the proxy call comes to: fetch rejects ("rejected"); the response has
\* a status outside 200-299 ("status", message: its body); the body of an OK
\* response is not JSON ("notJson"); it is JSON without a content array
\* ("noContent"); it is JSON with a content array ("json").
ProxyOutcomes ==
    {[kind |-> "rejected", status |-> Undefined, message |-> "fetch failed",
      content |-> <<>>],
     [kind |-> "status", status |-> "500", message |-> "upstream down",
      content |-> <<>>],
     [kind |-> "status", status |-> "401", message |-> "", content |-> <<>>],
     [kind |-> "notJson", status |-> "200",
      message |-> "Unexpected end of JSON input", content |-> <<>>],
     [kind |-> "noContent", status |-> "200", message |-> Undefined,
      content |-> <<>>]}
    \cup {[kind |-> "json", status |-> "200", message |-> Undefined,
           content |-> blocks] : blocks \in BlockLists}

\* The tool names a CallTool request can carry.
ToolNames == {"web_search", "search_news", "generate_image", "edit_image", "read_file"}

\* request.params.arguments of a request to the search server (given: whether
\* the request has arguments at all; num_results 0: none given).
SearchArguments ==
    {[given |-> FALSE, query |-> Undefined, num_results |-> 0, time_range |-> Undefined],
     [given |-> TRUE, query |-> "tla+", num_results |-> 0, time_range |-> Undefined],
     [given |-> TRUE, query |-> "tla+", num_results |-> 3, time_range |-> "7d"]}

\* request.params.arguments of a request to the image server.
ImageArguments ==
    {[given |-> FALSE, prompt |-> Undefined, base_image |-> Undefined,
      edit_prompt |-> Undefined, aspect_ratio |-> Undefined],
     [given |-> TRUE, prompt |-> "a fox", base_image |-> "iVBORw0KGgo=",
      edit_prompt |-> "add snow", aspect_ratio |-> "16:9"]}

\* Date.now() at the time an image is saved.
Timestamps == {"1762329600000", "1762329600001"}

\* process.env.IMAGE_OUTPUT_DIR || join(homedir(), '.config', 'antigravity-proxy', 'images')
OUTPUT_DIR == "/home/user/.config/antigravity-proxy/images"

\* The message of the TypeError raised by reading a property of undefined.
undefinedArgs(field) ==
    "Cannot read properties of undefined (reading '" \o field \o "')"

\* From `await fetch(...)` to `await response.json()`: the content array of
\* the answer (isArray: whether data.content is an array), or threw with the
\* message of the error raised.
callProxy(outcome) ==
    CASE outcome.kind = "rejected" ->
            [threw |-> TRUE, message |-> outcome.message, isArray |-> FALSE,
             content |-> <<>>]
      [] outcome.kind = "status" ->
            [threw |-> TRUE,
             message |-> "Proxy error: " \o outcome.status \o " - " \o outcome.message,
             isArray |-> FALSE, content |-> <<>>]
      [] outcome.kind = "notJson" ->
            [threw |-> TRUE, message |-> outcome.message, isArray |-> FALSE,
             content |-> <<>>]
      [] outcome.kind = "noContent" ->
            [threw |-> FALSE, message |-> Undefined, isArray |-> FALSE,
             content |-> <<>>]
      [] OTHER ->
            [threw |-> FALSE, message |-> Undefined, isArray |-> TRUE,
             content |-> outcome.content]

\* The loop over data.content: imageData is the data of the last image block
\* (null: none), text the concatenation of the text blocks; reading the type
\* of a null block raises a TypeError.
RECURSIVE scanBlocks(_, _, _)
scanBlocks(blocks, imageData, text) ==
    IF blocks = <<>>
      THEN [threw |-> FALSE, message |-> Undefined, imageData |-> imageData,
            text |-> text]
      ELSE LET block == Head(blocks)
           IN  IF block.type = "null"
                 THEN [threw |-> TRUE,
                       message |-> "Cannot read properties of null (reading 'type')",
                       imageData |-> imageData, text |-> text]
                 ELSE IF block.type = "image" /\ block.data # Undefined /\ block.data # ""
                 THEN scanBlocks(Tail(blocks), block.data, text)
                 ELSE IF block.type = "text"
                 THEN scanBlocks(Tail(blocks), imageData, text \o block.text)
                 ELSE scanBlocks(Tail(blocks), imageData, text)

\* searchWeb / searchNews: the proxy call, then the text of the answer, or
\* `ifEmpty` when there is none; threw with the message of the error raised.
search(outcome, ifEmpty) ==
    LET answer == callProxy(outcome)
        scan == IF answer.isArray THEN scanBlocks(answer.content, "null", "")
                ELSE scanBlocks(<<>>, "null", "")
    IN  IF answer.threw THEN [threw |-> TRUE, value |-> answer.message]
        ELSE IF scan.threw THEN [threw |-> TRUE, value |-> scan.message]
        ELSE [threw |-> FALSE,
              value |-> IF scan.text # "" THEN scan.text ELSE ifEmpty]

\* async function searchWeb(query, numResults = 5)
searchWeb(query, numResults, outcome) == search(outcome, "No results found")

\* async function searchNews(query, timeRange = '24h')
searchNews(query, timeRange, outcome) == search(outcome, "No news found")

\* One field of a result object: its key and its value as JSON text.
jsonString(key, value) == [key |-> key, json |-> "\"" \o value \o "\""]
jsonLiteral(key, literal) == [key |-> key, json |-> literal]

\* JSON.stringify(result, null, 2) of an object given as its fields in
\* order.  The strings of the model hold no character that JSON escapes.
RECURSIVE stringifyFields(_)
stringifyFields(fields) ==
    IF fields = <<>> THEN ""
    ELSE "  \"" \o Head(fields).key \o "\": " \o Head(fields).json
            \o (IF Tail(fields) = <<>> THEN "" ELSE ",\n")
            \o stringifyFields(Tail(fields))

stringify(fields) == "{\n" \o stringifyFields(fields) \o "\n}"

\* generateImage / editImage: the proxy call, then the image of the answer
\* saved under OUTPUT_DIR (wrote: the file written, "null" if none), or the
\* answer's text.  now is Date.now(); writeFails: writeFileSync raises.
\* imageData.substring(0, 100) is the whole of an image shorter than 100
\* characters, as the model's are.
image(outcome, now, writeFails, prefix, saved, withBase64, ifEmpty) ==
    LET answer == callProxy(outcome)
        scan == IF answer.isArray THEN scanBlocks(answer.content, "null", "")
                ELSE scanBlocks(<<>>, "null", "")
        filepath == OUTPUT_DIR \o "/" \o prefix \o now \o ".png"
        fields == <<jsonLiteral("success", "true"),
                    jsonString("filepath", filepath),
                    jsonString("message", saved \o filepath)>>
    IN  IF answer.threw
          THEN [threw |-> TRUE, value |-> answer.message, wrote |-> "null"]
        ELSE IF scan.threw
          THEN [threw |-> TRUE, value |-> scan.message, wrote |-> "null"]
        ELSE IF scan.imageData # "null"
          THEN IF writeFails
                 THEN [threw |-> TRUE,
                       value |-> "ENOSPC: no space left on device, write",
                       wrote |-> "null"]
                 ELSE [threw |-> FALSE,
                       value |-> IF withBase64
                                   THEN Append(fields,
                                          jsonString("base64", scan.imageData \o "..."))
                                   ELSE fields,
                       wrote |-> filepath]
        ELSE [threw |-> FALSE,
              value |-> <<jsonLiteral("success", "false"),
                          jsonString("message",
                                     IF scan.text # "" THEN scan.text ELSE ifEmpty),
                          jsonLiteral("filepath", "null")>>,
              wrote |-> "null"]

\* async function generateImage(prompt, aspectRatio = '1:1')
generateImage(prompt, aspectRatio, outcome, now, writeFails) ==
    image(outcome, now, writeFails, "image_", "Image generated and saved to: ", TRUE,
          "Image generation completed but no image data returned. The model may have provided a text description instead.")

\* async function editImage(baseImage, editPrompt, aspectRatio = '1:1')
editImage(baseImage, editPrompt, aspectRatio, outcome, now, writeFails) ==
    image(outcome, now, writeFails, "edited_", "Image edited and saved to: ", FALSE,
          "Image edit completed but no image data returned.")

\* The three ways a CallTool handler ends.  isError FALSE: the result has no
\* isError field.
\* return { content: [{ type: 'text', text }] }
succeeded(text) ==
    [threw |-> FALSE, error |-> Undefined, text |-> text, isError |-> FALSE]

failed_noFlag(operation, message) ==
    [threw |-> FALSE, error |-> Undefined,
     text |-> operation \o " failed: " \o message, isError |-> FALSE]

\* catch (error): return { content: [{ type: 'text', text: `${operation} failed: ${error.message}` }], isError: true }
failed(operation, message) ==
    [threw |-> FALSE, error |-> Undefined,
     text |-> operation \o " failed: " \o message, isError |-> TRUE]

\* throw new Error(`Unknown tool: ${name}`)
unknownTool(name) ==
    [threw |-> TRUE, error |-> "Unknown tool: " \o name, text |-> Undefined,
     isError |-> FALSE]

\* The CallTool handler of the search server.
searchCallTool(name, args, outcome) ==
    IF name = "web_search"
      THEN IF ~args.given THEN failed("Search", undefinedArgs("query"))
           ELSE LET result == searchWeb(args.query,
                                  IF args.num_results = 0 THEN 5 ELSE args.num_results,
                                  outcome)
                IN  IF result.threw THEN failed("Search", result.value)
                    ELSE succeeded(result.value)
    ELSE IF name = "search_news"
      THEN IF ~args.given THEN failed("News search", undefinedArgs("query"))
           ELSE LET result == searchNews(args.query,
                                  IF args.time_range = Undefined THEN "24h"
                                  ELSE args.time_range,
                                  outcome)
                IN  IF result.threw THEN failed("News search", result.value)
                    ELSE succeeded(result.value)
    ELSE unknownTool(name)

\* The '1:1' of args.aspect_ratio || '1:1'.
aspectRatioOrDefault(args) ==
    IF args.aspect_ratio = Undefined THEN "1:1" ELSE args.aspect_ratio

\* The CallTool handler of the image server: how it ends, and the file it
\* wrote.
imageCallTool(name, args, outcome, now, writeFails) ==
    IF name = "generate_image"
      THEN IF ~args.given
             THEN [result |-> failed("Image generation", undefinedArgs("prompt")),
                   wrote |-> "null"]
           ELSE LET result == generateImage(args.prompt, aspectRatioOrDefault(args),
                                            outcome, now, writeFails)
                IN  [result |-> IF result.threw
                                  THEN failed("Image generation", result.value)
                                  ELSE succeeded(stringify(result.value)),
                     wrote |-> result.wrote]
    ELSE IF name = "edit_image"
      THEN IF ~args.given
             THEN [result |-> failed("Image edit", undefinedArgs("base_image")),
                   wrote |-> "null"]
           ELSE LET result == editImage(args.base_image, args.edit_prompt,
                                        aspectRatioOrDefault(args), outcome, now,
                                        writeFails)
                IN  [result |-> IF result.threw
                                  THEN failed("Image edit", result.value)
                                  ELSE succeeded(stringify(result.value)),
                     wrote |-> result.wrote]
    ELSE [result |-> unknownTool(name), wrote |-> "null"]

\* The proxy call is made when the tool is one of the server's and the
\* request has arguments.
Fetches(known, name, args) == name \in known /\ args.given

\* The search server handles one CallTool request.
SearchCallTool ==
    /\ Cardinality(toolCalls) < MaxToolCalls
    /\ \E name \in ToolNames, args \in SearchArguments,
          outcome \in ProxyOutcomes \cup {NoFetch} :
        /\ Fetches({"web_search", "search_news"}, name, args) <=> outcome # NoFetch
        /\ toolCalls' = toolCalls \cup
              {[server |-> "search", name |-> name, given |-> args.given,
                outcome |-> outcome, writeFails |-> FALSE,
                result |-> searchCallTool(name, args, outcome)]}
    /\ UNCHANGED <<headerCache, headerCalls, uuidsGenerated, envelopeCalls,
                   callers, held, savedFiles>>

\* The image server handles one CallTool request.
ImageCallTool ==
    /\ Cardinality(toolCalls) < MaxToolCalls
    /\ \E name \in ToolNames, args \in ImageArguments,
          outcome \in ProxyOutcomes \cup {NoFetch},
          now \in Timestamps, writeFails \in BOOLEAN :
        LET r == imageCallTool(name, args, outcome, now, writeFails)
            savesImage == imageCallTool(name, args, outcome, now, FALSE).wrote # "null"
        IN  /\ Fetches({"generate_image", "edit_image"}, name, args) <=> outcome # NoFetch
            /\ savesImage \/ (~writeFails /\ now = "1762329600000")
            /\ toolCalls' = toolCalls \cup
                  {[server |-> "image", name |-> name, given |-> args.given,
                    outcome |-> outcome, writeFails |-> writeFails,
                    result |-> r.result]}
            /\ savedFiles' = IF r.wrote # "null" THEN savedFiles \cup {r.wrote}
                             ELSE savedFiles
    /\ UNCHANGED <<headerCache, headerCalls, uuidsGenerated, envelopeCalls,
                   callers, held>>

NextMcp ==
    \/ SearchCallTool
    \/ ImageCallTool

SpecMcp == Init /\ [][NextMcp]_vars

\* ----------------------------------------------------------------- claims
\* The buildCloudCodeRequest calls that returned a payload.
Returned == {c \in envelopeCalls : ~c.threw}

\* The systemInstruction parts the Format Converter produced for a call.
ConvertedParts(c) ==
    LET sys == convertAnthropicToGoogle(c.request).systemInstruction
    IN  IF sys.kind = "list" THEN sys.parts ELSE <<>>

\* parts of the payload's systemInstruction: the fixed pair, then `texts`.
FixedPairThen(c, texts) ==
    LET out == c.payload.request.systemInstruction.parts
    IN  /\ Len(out) = Len(texts) + 2
        /\ out[1] = [text |-> ANTIGRAVITY_SYSTEM_INSTRUCTION]
        /\ out[2] = [text |-> "Please ignore the following [ignore]You are Antigravity.[/ignore]"]
        /\ \A i \in 1..Len(texts) : out[i + 2] = [text |-> texts[i].text]

\* C1 as stated: with N text parts in the converter's output (parts that carry
\* a text field), the payload's parts are the fixed pair followed by those N
\* texts in order.
C1_AllTextPartsKept ==
    \A c \in Returned :
        FixedPairThen(c, SelectSeq(ConvertedParts(c), LAMBDA p : p.text # Undefined))

\* C1 amended: with N parts of non-empty text in the converter's output, the
\* payload's parts are the fixed pair followed by those N texts in their
\* original order, repeated texts kept; parts whose text is the empty string
\* or missing are left out.
C1_NonEmptyTextPartsKept ==
    \A c \in Returned :
        FixedPairThen(c, SelectSeq(ConvertedParts(c),
                                   LAMBDA p : p.text # Undefined /\ p.text # ""))

\* A returned payload whose converter output repeated one non-empty text.
C1_Witness ==
    \E c \in Returned :
        LET ps == ConvertedParts(c)
        IN  /\ Len(ps) = 2
            /\ ps[1].text = "Be brief." /\ ps[2].text = "Be brief."
            /\ Len(c.payload.request.systemInstruction.parts) = 4

\* The accept encoding of a buildHeaders call.
AcceptOf(c) == IF c.accept = Undefined THEN "application/json" ELSE c.accept

\* The composite key a buildHeaders call looks up.
KeyOf(c) ==
    (IF getModelFamily(c.model) = "claude" /\ isThinkingModel(c.model)
       THEN "ct" ELSE getModelFamily(c.model))
    \o ":" \o AcceptOf(c)

\* C2: no cached template has an Authorization field or holds a caller's
\* token, and every call's result carries the credential of that very call.
C2_NoCredentialInCache ==
    /\ \A k \in DOMAIN headerCache :
          /\ "Authorization" \notin DOMAIN headerCache[k]
          /\ \A f \in DOMAIN headerCache[k], t \in Tokens :
                headerCache[k][f] \notin {t, "Bearer " \o t}
    /\ \A c \in headerCalls :
          /\ "Authorization" \in DOMAIN c.headers
          /\ c.headers["Authorization"] = "Bearer " \o c.token

\* Two calls with different tokens were served from one cached template.
C2_Witness ==
    /\ headerCache # EmptyMap
    /\ \E c1, c2 \in headerCalls : KeyOf(c1) = KeyOf(c2) /\ c1.token # c2.token

\* The header set without its Authorization field.
WithoutAuthorization(headers) ==
    [f \in DOMAIN headers \ {"Authorization"} |-> headers[f]]

\* C3: two calls with the same model and accept encoding and different tokens
\* return header sets equal in every field but Authorization, which is
\* 'Bearer ' + the call's own token.
C3_DifferOnlyInAuthorization ==
    \A c1, c2 \in headerCalls :
        (c1.model = c2.model /\ AcceptOf(c1) = AcceptOf(c2) /\ c1.token # c2.token) =>
            /\ WithoutAuthorization(c1.headers) = WithoutAuthorization(c2.headers)
            /\ DOMAIN c1.headers = DOMAIN c2.headers
            /\ c1.headers["Authorization"] = "Bearer " \o c1.token
            /\ c2.headers["Authorization"] = "Bearer " \o c2.token
            /\ c1.headers["Authorization"] # c2.headers["Authorization"]

\* Two such calls, with a call for another key among the calls made.
C3_Witness ==
    \E c1, c2, c3 \in headerCalls :
        /\ c1.model = c2.model /\ c1.accept = c2.accept /\ c1.token # c2.token
        /\ KeyOf(c3) # KeyOf(c1)

\* The header set carries the extended-reasoning header.
HasReasoningHeader(headers) ==
    /\ "anthropic-beta" \in DOMAIN headers
    /\ headers["anthropic-beta"] = "interleaved-thinking-2025-05-14"

\* C4: a call with accept 'application/json' returns the extended-reasoning
\* header exactly when the model's family is 'claude' and it is a thinking
\* model; otherwise the header set has no anthropic-beta field at all.
C4_ReasoningHeaderGating ==
    \A c \in headerCalls :
        AcceptOf(c) = "application/json" =>
            IF getModelFamily(c.model) = "claude" /\ isThinkingModel(c.model)
              THEN HasReasoningHeader(c.headers)
              ELSE "anthropic-beta" \notin DOMAIN c.headers

\* A thinking claude model, a plain claude model and a thinking model of
\* another family were all served with accept 'application/json'.
C4_Witness ==
    \E c1, c2, c3 \in headerCalls :
        /\ c1.accept = "application/json" /\ c2.accept = "application/json"
        /\ c3.accept = "application/json"
        /\ c1.model = "claude-opus-4-5-thinking" /\ HasReasoningHeader(c1.headers)
        /\ c2.model = "claude-sonnet-4-5" /\ ~HasReasoningHeader(c2.headers)
        /\ c3.model = "gemini-3-flash" /\ ~HasReasoningHeader(c3.headers)

\* C5: with accept 'application/json', given or defaulted, the result has no
\* Accept field; with any other accept it has Accept equal to that value.
C5_AcceptOnlyWhenNotJson ==
    \A c \in headerCalls :
        IF AcceptOf(c) = "application/json"
          THEN "Accept" \notin DOMAIN c.headers
          ELSE "Accept" \in DOMAIN c.headers /\ c.headers["Accept"] = c.accept

\* One model was called with accept omitted, 'application/json' and another
\* encoding.
C5_Witness ==
    \E c1, c2, c3 \in headerCalls :
        /\ c1.model = c2.model /\ c2.model = c3.model
        /\ c1.accept = Undefined /\ c2.accept = "application/json"
        /\ c3.accept = "text/event-stream"
        /\ c3.headers["Accept"] = "text/event-stream"

\* Two calls with the same accept encoding and models of different families.
DifferentFamilies(c1, c2) ==
    /\ AcceptOf(c1) = AcceptOf(c2)
    /\ getModelFamily(c1.model) # getModelFamily(c2.model)

\* C6 as stated: two calls with the same accept encoding and models of
\* different families differ in the presence of the extended-reasoning header.
C6_FamiliesDifferInReasoningHeader ==
    \A c1, c2 \in headerCalls :
        DifferentFamilies(c1, c2) =>
            HasReasoningHeader(c1.headers) # HasReasoningHeader(c2.headers)

\* C6 amended: two such calls differ in the presence of the extended-reasoning
\* header exactly when one of the two models is a thinking model of the
\* 'claude' family; when neither is, neither result has the header.
C6_DifferIffOneIsClaudeThinking ==
    \A c1, c2 \in headerCalls :
        DifferentFamilies(c1, c2) =>
            /\ (HasReasoningHeader(c1.headers) # HasReasoningHeader(c2.headers))
                 <=> \E c \in {c1, c2} :
                        getModelFamily(c.model) = "claude" /\ isThinkingModel(c.model)
            /\ "anthropic-beta" \in DOMAIN c1.headers <=> HasReasoningHeader(c1.headers)

\* Calls for a thinking claude model, a thinking gemini model and a model of
\* the default family, all with the same accept encoding.
C6_Witness ==
    \E c1, c2, c3 \in headerCalls :
        /\ c1.model = "claude-sonnet-4-5-thinking" /\ c2.model = "gemini-3-flash"
        /\ c3.model = "gpt-4o"
        /\ DifferentFamilies(c1, c2) /\ DifferentFamilies(c2, c3)
        /\ HasReasoningHeader(c1.headers)
        /\ ~HasReasoningHeader(c2.headers) /\ ~HasReasoningHeader(c3.headers)

\* The composite key of the call a caller is in.
KeyOfCaller(p) ==
    KeyOf([model |-> callers[p].model, accept |-> callers[p].acceptArg])

\* C7: whatever the interleaving of has(), get() and set() among callers,
\* all callers of one key get the same headers apart from Authorization,
\* the cache holds under that key exactly what they got, and two callers
\* holding a template for one key hold the same template.
C7_OneTemplatePerKey ==
    /\ \A c1, c2 \in headerCalls :
          KeyOf(c1) = KeyOf(c2) =>
              WithoutAuthorization(c1.headers) = WithoutAuthorization(c2.headers)
    /\ \A c \in headerCalls :
          KeyOf(c) \in DOMAIN headerCache
            /\ headerCache[KeyOf(c)] = WithoutAuthorization(c.headers)
    /\ \A p, q \in Callers :
          (callers[p].pc \in {"set", "merge"} /\ callers[q].pc \in {"set", "merge"}
             /\ KeyOfCaller(p) = KeyOfCaller(q))
            => callers[p].template = callers[q].template

\* Two callers, asking with different models, both missed one key: one has
\* stored its template and the other is about to store over it, after a call
\* for another key has finished.
C7_Witness ==
    /\ callers["caller-1"].pc = "merge"
    /\ callers["caller-2"].pc = "set"
    /\ callers["caller-1"].model # callers["caller-2"].model
    /\ KeyOfCaller("caller-1") = KeyOfCaller("caller-2")
    /\ KeyOfCaller("caller-1") \in DOMAIN headerCache
    /\ \E c \in headerCalls : KeyOf(c) # KeyOfCaller("caller-1")

\* C8: a key once stored stays in the cache with its template unchanged by
\* every later call, and the keys in the cache are keys of calls made.
C8_CacheAppendOnly ==
    /\ [](DOMAIN headerCache \subseteq {KeyOf(c) : c \in headerCalls})
    /\ [][\A k \in DOMAIN headerCache :
            k \in DOMAIN headerCache' /\ headerCache'[k] = headerCache[k]]_vars

\* Two templates are cached and a buildCloudCodeRequest call has been made.
C8_Witness ==
    /\ Cardinality(DOMAIN headerCache) = 2
    /\ Cardinality(headerCalls) = 2
    /\ Returned # {}

\* C9: every returned payload's requestId is 'agent-' followed by a value
\* randomUUID generated, one generated per returned payload, and no two
\* calls share a requestId.
C9_RequestIdsFreshAndDistinct ==
    /\ \A c \in Returned :
          \E n \in 1..uuidsGenerated :
              c.payload.requestId = "agent-uuid-" \o ToString(n)
    /\ Cardinality({c.payload.requestId : c \in Returned}) = uuidsGenerated
    /\ \A c1, c2 \in Returned :
          c1 # c2 => c1.payload.requestId # c2.payload.requestId

\* Two payloads were built for the same source request and project.
C9_Witness ==
    \E c1, c2 \in Returned :
        /\ c1.request = c2.request /\ c1.projectId = c2.projectId
        /\ c1.payload.requestId # c2.payload.requestId

\* C10: every returned payload's systemInstruction has role 'user'.
C10_RoleAlwaysUser ==
    \A c \in Returned : c.payload.request.systemInstruction.role = "user"

\* Payloads were built from a converter output with role 'system' and from
\* one without systemInstruction.
C10_Witness ==
    \E c1, c2 \in Returned :
        /\ convertAnthropicToGoogle(c1.request).systemInstruction.role = "system"
        /\ convertAnthropicToGoogle(c2.request).systemInstruction.kind = "absent"
        /\ c1.payload.request.systemInstruction.role = "user"
        /\ c2.payload.request.systemInstruction.role = "user"

\* The systemInstruction the Format Converter produced for a call.
ConvertedSystemInstruction(c) ==
    convertAnthropicToGoogle(c.request).systemInstruction

\* The converter's systemInstruction is missing or malformed: absent, without
\* parts, with parts that is not a list, or with an entry that is not an
\* object.
Malformed(sys) ==
    \/ sys.kind \in {"absent", "noParts", "string", "notIterable"}
    \/ sys.kind = "list" /\ \E i \in 1..Len(sys.parts) : sys.parts[i].type # "object"

\* C11: composing the system instruction never raises: every call whose
\* request the Format Converter accepted with a missing or malformed
\* systemInstruction returns a payload, and when the systemInstruction is
\* missing or has parts that is not a list, the payload's parts are the two
\* fixed parts.
C11_ComposerNeverRaises ==
    \A c \in envelopeCalls :
        c.request.converts /\ Malformed(ConvertedSystemInstruction(c)) =>
            /\ ~c.threw
            /\ ConvertedSystemInstruction(c).kind # "list" =>
                  Len(c.payload.request.systemInstruction.parts) = 2

\* C12: a call either fails whole or succeeds whole: when the Format Converter
\* raises, the call ends in that error and returns no payload; when the
\* converter accepts the request, the call returns a complete payload; and a
\* call that ends in an error leaves the header cache as it was.
C12_FailsAtomically ==
    /\ \A c \in envelopeCalls :
          IF c.request.converts
            THEN /\ ~c.threw
                 /\ DOMAIN c.payload =
                      {"project", "model", "request", "userAgent", "requestType",
                       "requestId"}
            ELSE c.threw /\ c.payload = [error |-> "ConversionFailure"]
    /\ headerCalls = {} => headerCache = EmptyMap

\* C13: in every result of buildHeaders, whatever the cache held, the
\* Authorization field is exactly 'Bearer ' + the call's token; neither the
\* base headers nor a cached template has an Authorization field that could
\* replace it; and no other field of the result holds a token.
C13_AuthorizationIsTheCallersToken ==
    /\ "Authorization" \notin DOMAIN BASE_HEADERS
    /\ \A k \in DOMAIN headerCache : "Authorization" \notin DOMAIN headerCache[k]
    /\ \A c \in headerCalls :
          /\ "Authorization" \in DOMAIN c.headers
          /\ c.headers["Authorization"] = "Bearer " \o c.token
          /\ \A f \in DOMAIN c.headers \ {"Authorization"}, t \in Tokens :
                c.headers[f] \notin {t, "Bearer " \o t}

\* The same model and accept encoding were asked for with both tokens, the
\* second call being served from the template the first one cached, and each
\* result carries its own token.
C13_Witness ==
    \E c1, c2 \in headerCalls :
        /\ c1.model = c2.model /\ c1.accept = c2.accept
        /\ c1.token = "tok-123" /\ c2.token = "tok-456"
        /\ c1.headers["Authorization"] = "Bearer tok-123"
        /\ c2.headers["Authorization"] = "Bearer tok-456"
        /\ KeyOf(c1) \in DOMAIN headerCache

\* C14: a returned payload has project = the project id passed, model = the
\* source request's model, request = the converted request (its contents),
\* userAgent 'antigravity' and requestType 'agent'; without a system
\* instruction from the caller its systemInstruction has exactly two parts.
C14_EnvelopeFields ==
    \A c \in Returned :
        /\ c.payload.project = c.projectId
        /\ c.payload.model = c.request.model
        /\ c.payload.request.contents = c.request.messages
        /\ c.payload.userAgent = "antigravity"
        /\ c.payload.requestType = "agent"
        /\ c.request.system.kind = "absent" =>
              Len(c.payload.request.systemInstruction.parts) = 2

\* Payloads were returned for both projects, or for a model other than the
\* base request's, without a system instruction from the caller.
C14_Witness ==
    \E c1, c2 \in Returned :
        /\ c1.request.system.kind = "absent" /\ c2.request.system.kind = "absent"
        /\ c1.payload.model = "gemini-3-flash" /\ c1.payload.project = "proj-1"
        /\ c2.payload.model = "claude-sonnet-4-5-thinking"
        /\ c2.payload.project = "proj-2"

\* C15: every returned payload carries request.sessionId = the session id
\* derived from its source request, so two calls with the same source request
\* carry the same sessionId while their requestIds differ, whatever calls
\* came before.
C15_SessionIdFollowsTheRequest ==
    /\ \A c \in Returned :
          c.payload.request.sessionId = deriveSessionId(c.request)
    /\ \A c1, c2 \in Returned :
          /\ c1.request.messages = c2.request.messages =>
                c1.payload.request.sessionId = c2.payload.request.sessionId
          /\ (c1.request = c2.request /\ c1 # c2) =>
                c1.payload.requestId # c2.payload.requestId

\* Two calls with the same source request and project returned payloads with
\* different requestIds.
C15_Witness ==
    \E c1, c2 \in Returned :
        /\ c1.request = c2.request /\ c1.projectId = c2.projectId
        /\ c1.payload.requestId # c2.payload.requestId
        /\ c1.payload.request.sessionId = "sid:hello"

\* The header set built without any cache for the arguments of a call.
Uncached(c) ==
    buildTemplate(c.model, AcceptOf(c)) @@ ("Authorization" :> ("Bearer " \o c.token))

\* C16: the cached template depends on the composite key only: the template
\* stored under a key is the one an uncached construction gives for every
\* model and accept encoding with that key, whichever call stored it, and
\* the result of every buildHeaders call, after any calls before it, is the
\* header set an uncached construction gives for its arguments.
C16_CachedEqualsUncached ==
    /\ \A k \in DOMAIN headerCache, m \in Models,
             a \in {"application/json", "text/event-stream"} :
          cacheKey(m, a) = k => headerCache[k] = buildTemplate(m, a)
    /\ \A c \in headerCalls : c.headers = Uncached(c)

\* Two different models with the same composite key were served: the second
\* from the template the first one stored.
C16_Witness ==
    \E c1, c2 \in headerCalls :
        /\ c1.model = "claude-opus-4-5-thinking"
        /\ c2.model = "claude-sonnet-4-5-thinking"
        /\ KeyOf(c1) = KeyOf(c2)
        /\ c1.headers["anthropic-beta"] = c2.headers["anthropic-beta"]

\* C17: every buildHeaders call returns a map of its own, not the cached
\* template: a caller that sets or deletes fields of a map it was given
\* leaves the cache as it was, and every result returned afterwards is the
\* header set an uncached construction gives for its arguments.
C17_ResultIsAFreshMap ==
    [][/\ MutateHeldStep => headerCache' = headerCache
       /\ \A p \in Callers :
            (held'[p] # held[p] /\ ~held'[p].mutated) =>
                /\ ~held'[p].sameObject
                /\ held'[p].headers = Uncached(held'[p])
                /\ headerCache'[keyOfHeld(p)'] =
                      buildTemplate(held'[p].model, AcceptOf(held'[p]))]_vars

\* One caller has changed the map it holds, and the other got, after that and
\* for the same cache key, the header set with the fields the first one
\* changed or deleted.
C17_Witness ==
    \E p, q \in Callers :
        /\ held[p].mutated /\ held[p].headers # Uncached(held[p])
        /\ ~held[q].mutated /\ held[q].afterMutation
        /\ keyOfHeld(p) = keyOfHeld(q)
        /\ "anthropic-beta" \notin DOMAIN held[p].headers
        /\ "anthropic-beta" \in DOMAIN held[q].headers

\* The tools each server answers for.
KnownTools(server) ==
    IF server = "search" THEN {"web_search", "search_news"}
    ELSE {"generate_image", "edit_image"}

\* The operation named in a tool's failure text.
OperationOf(name) ==
    CASE name = "web_search" -> "Search"
      [] name = "search_news" -> "News search"
      [] name = "generate_image" -> "Image generation"
      [] OTHER -> "Image edit"

\* The proxy call of a request failed: fetch rejected, or the status was not
\* OK; with the message of the error.
ProxyFailed(c) == c.outcome.kind \in {"rejected", "status"}
ProxyFailure(c) ==
    IF c.outcome.kind = "rejected" THEN c.outcome.message
    ELSE "Proxy error: " \o c.outcome.status \o " - " \o c.outcome.message

\* The request went through: the proxy answered with well-formed content and
\* the image, if any, was saved.
WentThrough(c) ==
    /\ c.given /\ ~c.writeFails
    /\ c.outcome.kind \in {"json", "noContent"}
    /\ \A i \in 1..Len(c.outcome.content) : c.outcome.content[i].type # "null"

\* C18: in both servers the CallTool handler never throws for a tool it
\* knows: a failed proxy call (fetch rejected, or a status that is not OK)
\* comes back as a result with isError true and the text '<operation>
\* failed: <message>', any other error comes back with isError true as well,
\* a request that went through comes back without isError, and only a tool
\* name the server does not know raises, with 'Unknown tool: <name>'.
C18_KnownToolsNeverThrow ==
    \A c \in toolCalls :
        IF c.name \in KnownTools(c.server)
          THEN /\ ~c.result.threw
               /\ ProxyFailed(c) =>
                     /\ c.result.isError
                     /\ c.result.text = OperationOf(c.name) \o " failed: " \o ProxyFailure(c)
               /\ c.result.isError <=> ~WentThrough(c)
          ELSE /\ c.result.threw
               /\ c.result.error = "Unknown tool: " \o c.name

\* The search server answered a web_search whose proxy call got status 500,
\* and the image server answered a generate_image whose fetch was rejected.
C18_Witness ==
    /\ \E c \in toolCalls :
          /\ c.server = "search" /\ c.name = "web_search"
          /\ c.outcome.kind = "status" /\ c.outcome.status = "500"
          /\ c.result.isError
          /\ c.result.text = "Search failed: Proxy error: 500 - upstream down"
    /\ \E c \in toolCalls :
          /\ c.server = "image" /\ c.name = "generate_image"
          /\ c.outcome.kind = "rejected"
          /\ c.result.text = "Image generation failed: fetch failed"

====
